---- MODULE Spec2Model ----
(***************************************************************************)
(* pathvis-rs: the stepwise grid search of src/planning/astar.rs over the   *)
(* grid of src/planning/world.rs.                                           *)
(*                                                                          *)
(* An f32 is modelled exactly: every value the search computes is 0 or a    *)
(* value >= 1, hence a multiple of 2^-23, and is held as the integer count  *)
(* of 2^-23 units.  Addition and square root round to nearest, ties to      *)
(* even, to a 24-bit significand, as IEEE-754 binary32 does.                *)
(***************************************************************************)
EXTENDS Integers, Sequences, FiniteSets, TLC

----------------------------------------------------------------------------
(* Bounds of the model *)

\* general grids (any obstacle layout with at most MaxObstacles obstacles)
MaxWidth == 2
MaxHeight == 3
MaxObstacles == 1
\* obstacle-free grids
OpenMaxWidth == 4
OpenMaxHeight == 4
\* grids cut by a complete wall of obstacles
WallMaxWidth == 3
WallMaxHeight == 3
\* corridors: 1 x n and n x 1 grids
CorridorMaxLen == 6
\* a caller stops calling step() after it has seen this many absent results
MaxAbsent == 3
\* cap of the step counter
MaxSteps == 60
\* the largest sum of two squared coordinate differences
MaxSqrtArg == 200
\* the grids whose cells the neighbor enumerator is run on
EnumMaxWidth == 3
EnumMaxHeight == 3
\* the grids and the arguments id_at and coords_for are called with
ConvMaxWidth == 3
ConvMaxHeight == 3
ConvMaxCoord == 4
ConvMaxId == 12
\* world_side_len of the WorldController
CtlSide == 2

----------------------------------------------------------------------------
(* Option<T> *)

None == <<>>
Some(v) == <<v>>

----------------------------------------------------------------------------
(* f32 *)

F32Unit == 2^23
F32Full == 2^24

\* an integer below 2^24 converted with `as f32` (exact)
F32(n) == n * F32Unit

RECURSIVE F32Quantum(_, _)
\* the spacing of the f32 values around s: the least q = 2^k with s < 2^24 * q
F32Quantum(s, q) == IF s < F32Full * q THEN q ELSE F32Quantum(s, 2 * q)

\* round-to-nearest, ties-to-even, of the exact value s to a 24-bit significand
F32Round(s) ==
    LET q == F32Quantum(s, 1)
        r == s % q
        lo == s - r
    IN  IF 2 * r < q THEN lo
        ELSE IF 2 * r > q THEN lo + q
        ELSE IF (lo \div q) % 2 = 0 THEN lo ELSE lo + q

\* a + b on f32
F32Add(a, b) == F32Round(a + b)

RECURSIVE ISqrt(_, _)
\* the integer square root of n, counted up from p
ISqrt(n, p) == IF (p + 1) * (p + 1) > n THEN p ELSE ISqrt(n, p + 1)

RECURSIVE Log2Floor(_)
Log2Floor(n) == IF n < 2 THEN 0 ELSE 1 + Log2Floor(n \div 2)

RECURSIVE SqrtBits(_, _, _)
\* k more bits of the square root p with remainder r (digit-by-digit method)
SqrtBits(p, r, k) ==
    IF k = 0 THEN p
    ELSE IF 4 * r >= 4 * p + 1
         THEN SqrtBits(2 * p + 1, 4 * r - (4 * p + 1), k - 1)
         ELSE SqrtBits(2 * p, 4 * r, k - 1)

\* (n as f32).sqrt() for an integer n: correctly rounded
F32Sqrt(n) ==
    IF n = 0 THEN 0
    ELSE LET p0 == ISqrt(n, 0)
             e == Log2Floor(p0)
             \* floor(sqrt(n) * 2^(24-e)): 24 bits and one guard bit
             P == SqrtBits(p0, n - p0 * p0, 24 - e)
         IN  ((P + 1) \div 2) * 2^e

----------------------------------------------------------------------------
(* world.rs *)

Obstacle == [tag |-> "Obstacle"]
Open == [tag |-> "Open"]
Visited(g, h, k, parent) ==
    [tag |-> "Visited", g |-> g, h |-> h, k |-> k, parent |-> parent]

Cardinal == "Cardinal"
CardinalAndDiagonal == "CardinalAndDiagonal"
Neighbors == {Cardinal, CardinalAndDiagonal}

\* World::new; Ids are 0-based, cells[id + 1] is the cell of Id id
World_new(width, height, cells) ==
    IF width * height # Len(cells) THEN None
    ELSE Some([width |-> width, height |-> height, cells |-> cells])

coords_for(w, id) ==
    IF id < Len(w.cells)
    THEN LET y == id \div w.width
             x == id - y * w.width
         IN  Some(<<x, y>>)
    ELSE None

\* an id_at that multiplies y by the height
id_at_by_height(w, x, y) ==
    LET id == y * w.height + x
    IN  IF id < Len(w.cells) THEN Some(id) ELSE None

id_at(w, x, y) ==
    LET id == y * w.width + x
    IN  IF id < Len(w.cells) THEN Some(id) ELSE None

\* World::cell / World::cell_mut: Vec::get
cell(w, id) == IF id >= 0 /\ id < Len(w.cells) THEN Some(w.cells[id + 1]) ELSE None

\* World::cell_at / World::cell_at_mut
cell_at(w, x, y) ==
    LET id == id_at(w, x, y)
    IN  IF id # None THEN Some(w.cells[id[1] + 1]) ELSE None

\* `*cell = c` through the reference of cell_mut / cell_at_mut
set_cell(w, id, c) == [w EXCEPT !.cells[id + 1] = c]

\* a NeighborIter::new that starts at S instead of E
NeighborIter_new_south(x, y, strat) ==
    [next |-> Some("S"), strat |-> strat, x |-> x, y |-> y]

NeighborIter_new(x, y, strat) ==
    [next |-> Some("E"), strat |-> strat, x |-> x, y |-> y]

\* the S arm without its tests of x == 0
next_after_S_unguarded(it) ==
    IF it.strat = CardinalAndDiagonal THEN Some("SW") ELSE Some("W")

\* the S arm of NeighborIter::next: the direction that follows S
next_after_S(it) ==
    IF it.x = 0 /\ it.y = 0 THEN None
    ELSE IF it.x = 0 THEN Some("N")
    ELSE IF it.strat = CardinalAndDiagonal THEN Some("SW") ELSE Some("W")

\* the W arm without its test of y == 0
next_after_W_unguarded(it) ==
    IF it.strat = CardinalAndDiagonal THEN Some("NW") ELSE Some("N")

\* the W arm of NeighborIter::next: the direction that follows W
next_after_W(it) ==
    IF it.y = 0 THEN None
    ELSE IF it.strat = CardinalAndDiagonal THEN Some("NW") ELSE Some("N")

\* NeighborIter::next: the iterator after the call and the item returned
NeighborIter_next(it) ==
    IF it.next = None THEN [it |-> it, item |-> None]
    ELSE LET dir == it.next[1]
             diag == it.strat = CardinalAndDiagonal
         IN  CASE dir = "E" ->
                    [it |-> [it EXCEPT !.next = IF diag THEN Some("SE") ELSE Some("S")],
                     item |-> Some(<<it.x + 1, it.y>>)]
               [] dir = "SE" ->
                    [it |-> [it EXCEPT !.next = Some("S")],
                     item |-> Some(<<it.x + 1, it.y + 1>>)]
               [] dir = "S" ->
                    [it |-> [it EXCEPT !.next = next_after_S(it)],
                     item |-> Some(<<it.x, it.y + 1>>)]
               [] dir = "SW" ->
                    [it |-> [it EXCEPT !.next = Some("W")],
                     item |-> Some(<<it.x - 1, it.y + 1>>)]
               [] dir = "W" ->
                    [it |-> [it EXCEPT !.next = next_after_W(it)],
                     item |-> Some(<<it.x - 1, it.y>>)]
               [] dir = "NW" ->
                    [it |-> [it EXCEPT !.next = Some("N")],
                     item |-> Some(<<it.x - 1, it.y - 1>>)]
               [] dir = "N" ->
                    [it |-> [it EXCEPT !.next = IF diag THEN Some("NE") ELSE None],
                     item |-> Some(<<it.x, it.y - 1>>)]
               [] dir = "NE" ->
                    [it |-> [it EXCEPT !.next = None],
                     item |-> Some(<<it.x + 1, it.y - 1>>)]

RECURSIVE NeighborItems(_)
\* the items a `for` loop draws from the iterator until it returns None
NeighborItems(it) ==
    LET r == NeighborIter_next(it)
    IN  IF r.item = None THEN <<>> ELSE <<r.item[1]>> \o NeighborItems(r.it)

iter_neighbor_ids(w, id, strat) ==
    LET c == coords_for(w, id)
    IN  IF c # None THEN Some(NeighborIter_new(c[1][1], c[1][2], strat)) ELSE None

----------------------------------------------------------------------------
(* astar.rs *)

Manhattan == "Manhattan"
Euclidean == "Euclidean"
Heuristics == {None, Some(Manhattan), Some(Euclidean)}

AStarCfg_new ==
    [neighbors |-> Cardinal, heuristic |-> None, goal |-> None, start |-> None]

with_goal(cfg, id) == [cfg EXCEPT !.goal = Some(id)]
with_start(cfg, id) == [cfg EXCEPT !.start = Some(id)]
with_hueristic(cfg, h) == [cfg EXCEPT !.heuristic = h]
with_neighbors(cfg, n) == [cfg EXCEPT !.neighbors = n]

Ok(v) == [ok |-> TRUE, val |-> v]
Err(e) == [ok |-> FALSE, err |-> e]

\* a valid_for that does not look at the start
valid_for_goal_only(cfg, w) ==
    IF cfg.goal = None THEN Err("Must specify goal point")
    ELSE IF coords_for(w, cfg.goal[1]) = None THEN Err("Invalid goal")
    ELSE Ok(<<>>)

valid_for(cfg, w) ==
    IF cfg.goal = None THEN Err("Must specify goal point")
    ELSE IF coords_for(w, cfg.goal[1]) = None THEN Err("Invalid goal")
    ELSE IF cfg.start = None THEN Err("Must specify start point")
    ELSE IF coords_for(w, cfg.start[1]) = None THEN Err("Invalid start")
    ELSE Ok(<<>>)

Abs(a, b) == IF a >= b THEN a - b ELSE b - a

\* f32::sqrt on the sums of two squares the search can form, computed once
F32SqrtOf == [n \in 0..MaxSqrtArg |-> F32Sqrt(n)]

\* the squares and their sum are small integers, exact in f32
calc_euclidean_dist(a, b) ==
    F32SqrtOf[Abs(a[1], b[1]) * Abs(a[1], b[1]) + Abs(a[2], b[2]) * Abs(a[2], b[2])]

calc_manhattan_dist(a, b) == Abs(a[1], b[1]) + Abs(a[2], b[2])

\* from_cfg, with the step counter started at 1
from_cfg_counting_from_one(cfg, w) ==
    LET v == valid_for(cfg, w)
    IN  IF ~v.ok THEN v
        ELSE Ok([config |-> cfg, current |-> None, frontier |-> <<>>,
                 world |-> w, prev_step |-> 1])

\* AStar::from_cfg
from_cfg(cfg, w) ==
    LET v == valid_for(cfg, w)
    IN  IF ~v.ok THEN v
        ELSE Ok([config |-> cfg, current |-> None, frontier |-> <<>>,
                 world |-> w, prev_step |-> 0])

\* the position of the entry of Id id in the frontier (0: none)
frontier_position(f, id) ==
    IF \E i \in 1..Len(f) : f[i][1] = id
    THEN CHOOSE i \in 1..Len(f) : f[i][1] = id /\ \A j \in 1..(i - 1) : f[j][1] # id
    ELSE 0

\* frontier_put, with every entry pushed
frontier_put_push(f, id, cost) == Append(f, <<id, cost>>)

\* "replace or add to frontier"
frontier_put(f, id, cost) ==
    LET idx == frontier_position(f, id)
    IN  IF idx # 0 THEN [f EXCEPT ![idx] = <<id, cost>>] ELSE Append(f, <<id, cost>>)

\* sort_insert, with e put before the entries of the same cost
sort_insert_before_equal(s, e) ==
    LET n == Cardinality({i \in 1..Len(s) : s[i][2] > e[2]})
    IN  SubSeq(s, 1, n) \o <<e>> \o SubSeq(s, n + 1, Len(s))

\* e put into the descending sequence s behind every entry that does not cost less
sort_insert(s, e) ==
    LET n == Cardinality({i \in 1..Len(s) : s[i][2] >= e[2]})
    IN  SubSeq(s, 1, n) \o <<e>> \o SubSeq(s, n + 1, Len(s))

RECURSIVE sort_from(_, _, _)
sort_from(f, i, acc) ==
    IF i > Len(f) THEN acc ELSE sort_from(f, i + 1, sort_insert(acc, f[i]))

\* frontier_sort, with the entries left in the order of their insertion
frontier_sort_none(f) == f

\* Vec::sort_by with cost_b.partial_cmp(cost_a): stable, descending cost
frontier_sort(f) == sort_from(f, 1, <<>>)

\* "skip obstacles"
is_obstacle(c) == c.tag = "Obstacle"

\* is_done, with the check made for popped cells only
is_done_popped(a, next) == a.current # None /\ next = a.config.start[1]

\* is_done, with start and goal confused
is_done_goal(a, next) == next = a.config.goal[1]

\* "check if done"
is_done(a, next) == next = a.config.start[1]

\* needs_update, without the comparison of the costs
needs_update_always(c, new_cost) == c.tag = "Open" \/ c.tag = "Visited"

\* needs_update, with a Visited cell of the same cost replaced too
needs_update_or_equal(c, new_cost) ==
    \/ c.tag = "Open"
    \/ c.tag = "Visited" /\ c.g >= new_cost

\* "update cell if unvisited or better than frontier options"
needs_update(c, new_cost) ==
    \/ c.tag = "Open"
    \/ c.tag = "Visited" /\ c.g > new_cost

\* edge_cost, with every move free
edge_cost_free(strat, xy, my_coord) == 0

\* "determine cost to go": the edge cost
edge_cost(strat, xy, my_coord) ==
    IF strat = CardinalAndDiagonal THEN calc_euclidean_dist(xy, my_coord) ELSE F32(1)

\* "determine heuristic"
heuristic_for(h, xy, goal_coord) ==
    IF h = Some(Euclidean) THEN calc_euclidean_dist(xy, goal_coord)
    ELSE IF h = Some(Manhattan) THEN F32(calc_manhattan_dist(xy, goal_coord))
    ELSE 0

\* new_cell, with the heuristic left out of the cell
new_cell_without_h(new_cost, new_heur, next) == Visited(new_cost, 0, 0, next)

\* "build Cell data"
new_cell(new_cost, new_heur, next) == Visited(new_cost, new_heur, 0, next)

\* the body of the loop over the neighbors, for the neighbor xy of `next`;
\* st holds the world and the frontier
relax(st, cfg, next, my_coord, goal_coord, my_cost, xy) ==
    LET c == cell_at(st.world, xy[1], xy[2])
    IN  IF c = None THEN st
        ELSE IF is_obstacle(c[1]) THEN st
        ELSE LET new_cost == F32Add(edge_cost(cfg.neighbors, xy, my_coord), my_cost)
                 new_heur == heuristic_for(cfg.heuristic, xy, goal_coord)
                 id == id_at(st.world, xy[1], xy[2])[1]
             IN  IF needs_update(c[1], new_cost)
                 THEN [world |-> set_cell(st.world, id, new_cell(new_cost, new_heur, next)),
                       frontier |-> frontier_put(st.frontier, id, F32Add(new_heur, new_cost))]
                 ELSE st

RECURSIVE relax_all(_, _, _, _, _, _, _, _)
relax_all(st, cfg, next, my_coord, goal_coord, my_cost, items, i) ==
    IF i > Len(items) THEN st
    ELSE relax_all(relax(st, cfg, next, my_coord, goal_coord, my_cost, items[i]),
                   cfg, next, my_coord, goal_coord, my_cost, items, i + 1)

\* select_next, with the goal left unmarked by the first call
select_next_unmarked(a) ==
    IF a.current = None
    THEN [a |-> a, next |-> Some(a.config.goal[1])]
    ELSE IF a.frontier # <<>>
         THEN [a |-> [a EXCEPT !.frontier = SubSeq(a.frontier, 1, Len(a.frontier) - 1)],
               next |-> Some(a.frontier[Len(a.frontier)][1])]
         ELSE [a |-> a, next |-> None]

\* select_next, with the pop made at the front of the frontier
select_next_front(a) ==
    IF a.current = None
    THEN LET goal == a.config.goal[1]
         IN  [a |-> [a EXCEPT !.world = set_cell(a.world, goal, Visited(0, 0, 0, goal))],
              next |-> Some(goal)]
    ELSE IF a.frontier # <<>>
         THEN [a |-> [a EXCEPT !.frontier = SubSeq(a.frontier, 2, Len(a.frontier))],
               next |-> Some(a.frontier[1][1])]
         ELSE [a |-> a, next |-> None]

\* "get the next cell": the search after the selection, and the cell selected
select_next(a) ==
    IF a.current = None
    THEN LET goal == a.config.goal[1]
         IN  [a |-> [a EXCEPT !.world = set_cell(a.world, goal, Visited(0, 0, 0, goal))],
              next |-> Some(goal)]
    ELSE IF a.frontier # <<>>
         THEN [a |-> [a EXCEPT !.frontier = SubSeq(a.frontier, 1, Len(a.frontier) - 1)],
               next |-> Some(a.frontier[Len(a.frontier)][1])]
         ELSE [a |-> a, next |-> None]

\* the expansion of `next`: from "get x, y coordinates" to the end of step
expand(a, next) ==
    LET my_coord == coords_for(a.world, next)[1]
        goal_coord == coords_for(a.world, a.config.start[1])[1]
        c == cell(a.world, next)[1]
        my_cost == IF c.tag = "Visited" THEN c.g ELSE 0
        neighbors == iter_neighbor_ids(a.world, next, a.config.neighbors)[1]
        st == relax_all([world |-> a.world, frontier |-> a.frontier], a.config, next,
                        my_coord, goal_coord, my_cost, NeighborItems(neighbors), 1)
    IN  [a EXCEPT !.world = st.world,
                  !.frontier = frontier_sort(st.frontier),
                  !.prev_step = a.prev_step + 1,
                  !.current = Some(next)]

\* what a step() call that panics leaves its caller with
Panic == "panic"

\* step() panics while it selects a cell: an unwrap() of an absent goal or of
\* the goal's cell
select_panics(a) ==
    \/ a.config.goal = None
    \/ a.current = None /\ cell(a.world, a.config.goal[1]) = None

\* step() panics once it has selected `next`: an unwrap() of an absent start,
\* of absent coordinates or of an absent cell, or a usize subtraction below 0
\* in the enumerator (a panic of the debug build)
step_panics(a, next) ==
    \/ a.config.start = None
    \/ coords_for(a.world, next) = None
    \/ coords_for(a.world, a.config.start[1]) = None
    \/ cell(a.world, next) = None
    \/ LET items == NeighborItems(iter_neighbor_ids(a.world, next, a.config.neighbors)[1])
       IN  \E i \in DOMAIN items : items[i][1] < 0 \/ items[i][2] < 0

\* AStar::step: the search after the call and the value returned
AStar_step(a) ==
    IF select_panics(a) THEN [a |-> a, ret |-> Panic]
    ELSE LET s == select_next(a)
         IN  IF s.next = None THEN [a |-> s.a, ret |-> None]
             ELSE IF s.a.config.start = None THEN [a |-> s.a, ret |-> Panic]
             ELSE IF is_done(s.a, s.next[1]) THEN [a |-> s.a, ret |-> None]
             ELSE IF step_panics(s.a, s.next[1]) THEN [a |-> s.a, ret |-> Panic]
             ELSE LET b == expand(s.a, s.next[1])
                  IN  [a |-> b, ret |-> Some(b.prev_step)]

RECURSIVE path_walk(_, _, _)
\* the parent links from id on: stops at the cell that is its own parent, or
\* after `hops` links
path_walk(w, id, hops) ==
    LET c == w.cells[id + 1]
    IN  IF c.tag # "Visited" \/ c.parent = id \/ hops = 0 THEN <<id>>
        ELSE <<id>> \o path_walk(w, c.parent, hops - 1)

\* AStar::current: the Id expanded last, absent before the first step
AStar_current(a) == a.current

\* AStar::path: present once the start cell is Visited; the Ids from start to goal
path(a) ==
    LET start == a.config.start[1]
    IN  IF a.world.cells[start + 1].tag = "Visited"
        THEN Some(path_walk(a.world, start, a.world.width * a.world.height))
        ELSE None

----------------------------------------------------------------------------
(* The state: the fields of AStar and its caller's view of step(); a
   NeighborIter and what was drawn from it; the last call of a function of
   World or of AStarCfg; the fields of WorldController *)

VARIABLES
    config,     \* AStar.config
    current,    \* AStar.current
    frontier,   \* AStar.frontier
    world,      \* AStar.world
    prev_step,  \* AStar.prev_step
    ret,        \* what the last step() call returned (None before the first),
                \* or Panic
    calls,      \* how many step() calls were made
    iter,       \* a NeighborIter (None: none was made)
    items,      \* the items drawn from iter so far
    call,       \* the last call of a function: its name, arguments and result
                \* (None: none was made)
    app         \* WorldController: which AppState, step and selected_cell
                \* (None: the search is used without the controller)

vars == <<config, current, frontier, world, prev_step, ret, calls, iter, items, call, app>>

astar == [config |-> config, current |-> current, frontier |-> frontier,
          world |-> world, prev_step |-> prev_step]

\* a grid of Open cells with the Ids of obst Obstacle
grid_cells(n, obst) == [i \in 1..n |-> IF (i - 1) \in obst THEN Obstacle ELSE Open]

\* the search built by from_cfg from a config made with the builder methods
InitFrom(width, height, obst, goal, start, strat, heur) ==
    LET w == World_new(width, height, grid_cells(width * height, obst))[1]
        cfg == with_neighbors(with_hueristic(with_start(with_goal(AStarCfg_new, goal),
                                                        start), heur), strat)
        r == from_cfg(cfg, w)
    IN  /\ r.ok
        /\ config = r.val.config
        /\ current = r.val.current
        /\ frontier = r.val.frontier
        /\ world = r.val.world
        /\ prev_step = r.val.prev_step
        /\ ret = None
        /\ calls = 0
        /\ iter = None
        /\ items = <<>>
        /\ call = None
        /\ app = None

\* every grid up to MaxWidth x MaxHeight with at most MaxObstacles obstacles
Init ==
    \E width \in 1..MaxWidth, height \in 1..MaxHeight :
      \E obst \in {s \in SUBSET (0..(width * height - 1)) : Cardinality(s) <= MaxObstacles} :
        \E goal, start \in 0..(width * height - 1), strat \in Neighbors, heur \in Heuristics :
          InitFrom(width, height, obst, goal, start, strat, heur)

\* the caller goes on calling step(): no call panicked, it has not seen
\* MaxAbsent absent results and the step counter is below its cap
step_enabled ==
    /\ ret # Panic
    /\ calls - prev_step < MaxAbsent
    /\ prev_step < MaxSteps

\* one call of step() by the test's loop or by the controller's "step" control
step ==
    /\ step_enabled
    /\ \E r \in {AStar_step(astar)} :
           /\ config' = r.a.config
           /\ current' = r.a.current
           /\ frontier' = r.a.frontier
           /\ world' = r.a.world
           /\ prev_step' = r.a.prev_step
           /\ ret' = r.ret
           /\ calls' = calls + 1
    /\ UNCHANGED <<iter, items, call, app>>

Next == step

Spec == Init /\ [][Next]_vars

\* a step() call seen through the caller's count of calls: every step, and
\* only a step, adds one to calls
step_call == step_enabled /\ calls' = calls + 1

\* the specification with the scheduling of the test's loop, which calls step()
\* again as long as it goes on.  Under [][Next]_vars, WF_calls(step_call) is
\* WF_vars(step).
SpecLive == Init /\ [][Next]_vars /\ WF_calls(step_call)

\* every obstacle-free grid up to OpenMaxWidth x OpenMaxHeight
InitOpen ==
    \E width \in 1..OpenMaxWidth, height \in 1..OpenMaxHeight :
      \E goal, start \in 0..(width * height - 1), strat \in Neighbors, heur \in Heuristics :
        InitFrom(width, height, {}, goal, start, strat, heur)

SpecOpen == InitOpen /\ [][Next]_vars

\* every obstacle-free corridor: one row or one column of up to CorridorMaxLen cells
InitCorridor ==
    \E len \in 1..CorridorMaxLen, dims \in {"row", "column"} :
      \E goal, start \in 0..(len - 1), strat \in Neighbors, heur \in Heuristics :
        InitFrom(IF dims = "row" THEN len ELSE 1, IF dims = "row" THEN 1 ELSE len,
                 {}, goal, start, strat, heur)

SpecCorridor == InitCorridor /\ [][Next]_vars

\* the world of tests::test_simple_pathing
TestWidth == 4
TestHeight == 8
TestObstacles == {1, 5}

\* the world of the test, with any start and goal
InitTest ==
    \E goal, start \in 0..(TestWidth * TestHeight - 1) :
      InitFrom(TestWidth, TestHeight, TestObstacles, goal, start, Cardinal, Some(Euclidean))

SpecTest == InitTest /\ [][Next]_vars

\* the Ids of column x, or of row y, of a width x height grid
wall_ids(width, height, dir, k) ==
    IF dir = "column" THEN {y * width + k : y \in 0..(height - 1)}
    ELSE {k * width + x : x \in 0..(width - 1)}

\* every grid up to WallMaxWidth x WallMaxHeight whose only obstacles are one
\* complete column or one complete row
InitWall ==
    \E width \in 1..WallMaxWidth, height \in 1..WallMaxHeight, dir \in {"column", "row"} :
      \E k \in 0..((IF dir = "column" THEN width ELSE height) - 1) :
        \E goal, start \in 0..(width * height - 1), strat \in Neighbors, heur \in Heuristics :
          InitFrom(width, height, wall_ids(width, height, dir, k), goal, start, strat, heur)

SpecWall == InitWall /\ [][Next]_vars

\* no search has taken a step: the fields of an AStar hold what from_cfg gives
no_search ==
    /\ current = None
    /\ frontier = <<>>
    /\ prev_step = 0
    /\ ret = None
    /\ calls = 0

\* the iterator iter_neighbor_ids gives for every cell of every grid up to
\* EnumMaxWidth x EnumMaxHeight, under both strategies
InitEnum ==
    \E width \in 1..EnumMaxWidth, height \in 1..EnumMaxHeight :
      \E id \in 0..(width * height - 1), strat \in Neighbors :
        /\ world = World_new(width, height, grid_cells(width * height, {}))[1]
        /\ config = with_neighbors(AStarCfg_new, strat)
        /\ no_search
        /\ iter = iter_neighbor_ids(world, id, strat)[1]
        /\ items = <<>>
        /\ call = None
        /\ app = None

\* one call of NeighborIter::next, as the `for` loop of step() makes it
next_call ==
    /\ iter # None
    /\ \E r \in {NeighborIter_next(iter)} :
           /\ iter' = r.it
           /\ items' = IF r.item = None THEN items ELSE Append(items, r.item[1])
           /\ call' = [fn |-> "next", out |-> r.item]
    /\ UNCHANGED <<config, current, frontier, world, prev_step, ret, calls, app>>

NextEnum == next_call

SpecEnum == InitEnum /\ [][NextEnum]_vars

\* every world up to ConvMaxWidth x ConvMaxHeight, those without cells included
InitConv ==
    \E width \in 0..ConvMaxWidth, height \in 0..ConvMaxHeight :
        /\ world = World_new(width, height, grid_cells(width * height, {}))[1]
        /\ config = AStarCfg_new
        /\ no_search
        /\ iter = None
        /\ items = <<>>
        /\ call = None
        /\ app = None

\* a call of World::id_at
id_at_call ==
    /\ \E x, y \in 0..ConvMaxCoord :
          call' = [fn |-> "id_at", x |-> x, y |-> y, out |-> id_at(world, x, y)]
    /\ UNCHANGED <<config, current, frontier, world, prev_step, ret, calls, iter, items, app>>

\* a call of World::coords_for
coords_for_call ==
    /\ \E id \in 0..ConvMaxId :
          call' = [fn |-> "coords_for", id |-> id, out |-> coords_for(world, id)]
    /\ UNCHANGED <<config, current, frontier, world, prev_step, ret, calls, iter, items, app>>

NextConv == id_at_call \/ coords_for_call

SpecConv == InitConv /\ [][NextConv]_vars

\* an Id to configure: unset, or any Id up to one past the largest grid
BuildIds == {None} \cup {Some(id) : id \in 0..(MaxWidth * MaxHeight + 1)}

\* a config and a world before from_cfg is called with them: every world up
\* to MaxWidth x MaxHeight with at most MaxObstacles obstacles, and every
\* config, valid for it or not
InitBuild ==
    \E width \in 0..MaxWidth, height \in 0..MaxHeight :
      \E obst \in {s \in SUBSET (0..(width * height - 1)) : Cardinality(s) <= MaxObstacles} :
        \E goal, start \in BuildIds, strat \in Neighbors, heur \in Heuristics :
          /\ world = World_new(width, height, grid_cells(width * height, obst))[1]
          /\ config = [neighbors |-> strat, heuristic |-> heur, goal |-> goal, start |-> start]
          /\ no_search
          /\ iter = None
          /\ items = <<>>
          /\ call = None
          /\ app = None

\* the call AStar::from_cfg(config, world); on success the fields of the
\* search are those of the AStar it returns
from_cfg_call ==
    /\ call = None
    /\ \E r \in {from_cfg(config, world)} :
          /\ call' = [fn |-> "from_cfg", cfg |-> config, world |-> world,
                       valid |-> valid_for(config, world), out |-> r]
          /\ IF r.ok
             THEN /\ config' = r.val.config
                  /\ current' = r.val.current
                  /\ frontier' = r.val.frontier
                  /\ world' = r.val.world
                  /\ prev_step' = r.val.prev_step
             ELSE UNCHANGED <<config, current, frontier, world, prev_step>>
    /\ UNCHANGED <<ret, calls, iter, items, app>>

NextBuild == from_cfg_call

SpecBuild == InitBuild /\ [][NextBuild]_vars

----------------------------------------------------------------------------
(* world_controller.rs *)

\* World::clear: every Visited cell becomes Open, Obstacle cells stay
World_clear(w) ==
    [w EXCEPT !.cells = [i \in DOMAIN w.cells |->
                            IF w.cells[i].tag = "Visited" THEN Open ELSE w.cells[i]]]

\* AStar::goal and AStar::start: the Ids the search was configured with
AStar_goal(a) == a.config.goal[1]
AStar_start(a) == a.config.start[1]

\* WorldController as one record: state, step and selected_cell, the cfg and
\* world of AppState::Config or the fields of the AStar of AppState::Active,
\* and the caller's view of that AStar's step()
ctl ==
    [state |-> app.state, step |-> app.step, selected_cell |-> app.selected_cell,
     config |-> config, world |-> world, current |-> current, frontier |-> frontier,
     prev_step |-> prev_step, ret |-> ret, calls |-> calls, call |-> call]

\* the AStar of AppState::Active
astar_of(c) ==
    [config |-> c.config, current |-> c.current, frontier |-> c.frontier,
     world |-> c.world, prev_step |-> c.prev_step]

\* the right button pressed at cell (cell_x, cell_y): "Set goal then start"
press_right(c, cell_x, cell_y) ==
    LET sel == [c EXCEPT !.selected_cell = Some(<<cell_x, cell_y>>)]
    IN  IF c.state = "Config"
        THEN IF c.config.start = None
             THEN [sel EXCEPT !.config.start = id_at(c.world, cell_x, cell_y)]
             ELSE IF c.config.goal = None
             THEN [sel EXCEPT !.config.goal = id_at(c.world, cell_x, cell_y)]
             ELSE [sel EXCEPT !.config.start = None, !.config.goal = None]
        ELSE sel

\* a board press that toggles the cell in AppState::Active too
press_left_board_any_state(c, cell_x, cell_y) ==
    LET sel == [c EXCEPT !.selected_cell = Some(<<cell_x, cell_y>>)]
        id == id_at(c.world, cell_x, cell_y)
    IN  IF id # None
        THEN [sel EXCEPT !.world = set_cell(c.world, id[1],
                            IF c.world.cells[id[1] + 1].tag = "Obstacle" THEN Open ELSE Obstacle)]
        ELSE sel

\* the left button pressed at cell (cell_x, cell_y) of the board: "Toggle
\* obstacle if in config state"
press_left_board(c, cell_x, cell_y) ==
    LET sel == [c EXCEPT !.selected_cell = Some(<<cell_x, cell_y>>)]
        id == id_at(c.world, cell_x, cell_y)
    IN  IF c.state = "Config" /\ id # None
        THEN [sel EXCEPT !.world = set_cell(c.world, id[1],
                            IF c.world.cells[id[1] + 1].tag = "Obstacle" THEN Open ELSE Obstacle)]
        ELSE sel

\* a control 2 that does not ask valid_for
can_activate_always(c) == TRUE

\* control 2 of AppState::Config: "if let Ok(_) = cfg.valid_for(&world)"
can_activate(c) == valid_for(c.config, c.world).ok

\* AppState::Active(AStar::from_cfg(cfg.clone(), world.clone()).unwrap());
\* call keeps the arguments and the result of this from_cfg
to_active(c) ==
    LET r == from_cfg(c.config, c.world)
    IN  IF r.ok
        THEN [c EXCEPT !.state = "Active",
                       !.config = r.val.config,
                       !.current = r.val.current,
                       !.frontier = r.val.frontier,
                       !.world = r.val.world,
                       !.prev_step = r.val.prev_step,
                       !.ret = None,
                       !.calls = 0,
                       !.call = [fn |-> "from_cfg", cfg |-> c.config, world |-> c.world,
                                 valid |-> valid_for(c.config, c.world), out |-> r]]
        ELSE [c EXCEPT !.state = Panic]

\* an Active -> Config that hands the config of the search on as it is
to_config_carrying(c) ==
    [c EXCEPT !.state = "Config",
              !.config = astar_of(c).config,
              !.world = World_clear(astar_of(c).world),
              !.current = None, !.frontier = <<>>, !.prev_step = 0,
              !.ret = None, !.calls = 0, !.call = None]

\* an Active -> Config that starts from AStarCfg::new() alone
to_config_fresh(c) ==
    [c EXCEPT !.state = "Config",
              !.config = AStarCfg_new,
              !.world = World_clear(astar_of(c).world),
              !.current = None, !.frontier = <<>>, !.prev_step = 0,
              !.ret = None, !.calls = 0, !.call = None]

\* AppState::Config { cfg: AStarCfg::new().with_goal(astar.goal())
\* .with_start(astar.start()), world: new_world }; the AStar is dropped
to_config(c) ==
    [c EXCEPT !.state = "Config",
              !.config = with_start(with_goal(AStarCfg_new, AStar_goal(astar_of(c))),
                                    AStar_start(astar_of(c))),
              !.world = World_clear(astar_of(c).world),
              !.current = None, !.frontier = <<>>, !.prev_step = 0,
              !.ret = None, !.calls = 0, !.call = None]

\* "if toggle_state"
toggle_state(c) == IF c.state = "Config" THEN to_active(c) ELSE to_config(c)

\* control 0 of AppState::Active: "if let Some(step) = astar.step()"
ctl_step(c) ==
    LET r == AStar_step(astar_of(c))
    IN  [c EXCEPT !.state = IF r.ret = Panic THEN Panic ELSE c.state,
                  !.step = IF r.ret # Panic /\ r.ret # None THEN r.ret[1] ELSE c.step,
                  !.config = r.a.config,
                  !.current = r.a.current,
                  !.frontier = r.a.frontier,
                  !.world = r.a.world,
                  !.prev_step = r.a.prev_step,
                  !.ret = r.ret,
                  !.calls = c.calls + 1]

\* the left button pressed on the controls, at control ctrl_index
press_left_controls(c, ctrl_index) ==
    IF c.state = "Config"
    THEN CASE ctrl_index = 0 ->
                [c EXCEPT !.config.neighbors =
                    IF c.config.neighbors = CardinalAndDiagonal THEN Cardinal
                    ELSE CardinalAndDiagonal]
           [] ctrl_index = 1 ->
                [c EXCEPT !.config.heuristic =
                    IF c.config.heuristic = Some(Manhattan) THEN None
                    ELSE IF c.config.heuristic = Some(Euclidean) THEN Some(Manhattan)
                    ELSE Some(Euclidean)]
           [] ctrl_index = 2 -> IF can_activate(c) THEN toggle_state(c) ELSE c
           [] OTHER -> c
    ELSE CASE ctrl_index = 0 -> ctl_step(c)
           [] ctrl_index = 1 -> toggle_state(c)
           [] OTHER -> c

\* the left button pressed at column cell_x, row cell_y: the board takes the
\* columns up to width (x <= size), the controls the columns from width on
\* (x >= size), where ctrl_index is the row
press_left(c, cell_x, cell_y) ==
    LET b == IF cell_x <= c.world.width THEN press_left_board(c, cell_x, cell_y) ELSE c
    IN  IF cell_x >= c.world.width THEN press_left_controls(b, cell_y) ELSE b

\* the variables after an event are the fields of c
becomes(c) ==
    /\ app' = [state |-> c.state, step |-> c.step, selected_cell |-> c.selected_cell]
    /\ config' = c.config
    /\ world' = c.world
    /\ current' = c.current
    /\ frontier' = c.frontier
    /\ prev_step' = c.prev_step
    /\ ret' = c.ret
    /\ calls' = c.calls
    /\ call' = c.call
    /\ UNCHANGED <<iter, items>>

\* WorldController::new(CtlSide)
InitCtl ==
    /\ app = [state |-> "Config", step |-> 0, selected_cell |-> None]
    /\ config = AStarCfg_new
    /\ world = World_new(CtlSide, CtlSide, grid_cells(CtlSide * CtlSide, {}))[1]
    /\ no_search
    /\ iter = None
    /\ items = <<>>
    /\ call = None

\* WorldController::event for a press of the right button over the board
right_click_at(cell_x, cell_y) ==
    /\ app.state # Panic
    /\ \E c \in {press_right(ctl, cell_x, cell_y)} : becomes(c)

\* the press would call step()
calls_step(cell_x, cell_y) ==
    app.state = "Active" /\ cell_x >= world.width /\ cell_y = 0

\* WorldController::event for a press of the left button over the board or
\* the controls; the user stops pressing "step" as the caller of step_enabled
left_click_at(cell_x, cell_y) ==
    /\ app.state # Panic
    /\ calls_step(cell_x, cell_y) => step_enabled
    /\ \E c \in {press_left(ctl, cell_x, cell_y)} : becomes(c)

right_click == \E cell_x, cell_y \in 0..CtlSide : right_click_at(cell_x, cell_y)

left_click == \E cell_x \in 0..(CtlSide + 1), cell_y \in 0..CtlSide : left_click_at(cell_x, cell_y)

NextCtl == right_click \/ left_click

SpecCtl == InitCtl /\ [][NextCtl]_vars

----------------------------------------------------------------------------
(* What the claims speak of *)

Width == world.width
Height == world.height
Ids == 0..(Width * Height - 1)
CellOf(id) == world.cells[id + 1]
XOf(id) == id % Width
YOf(id) == id \div Width
Goal == config.goal[1]
Start == config.start[1]
IsVisited(id) == CellOf(id).tag = "Visited"

\* the last step() call returned absent
Absent == calls > 0 /\ ret = None
\* the last step() call was the first to return absent
FirstAbsent == Absent /\ calls = prev_step + 1

----------------------------------------------------------------------------
(* Claims *)

\* C1: terminal states are sticky: once a step() call has returned absent,
\* every later step() call returns absent too and leaves the grid, the
\* frontier, current and the step count unchanged.
C1_TerminalSticky ==
    [][Absent => (ret' = None /\ UNCHANGED <<world, frontier, current, prev_step>>)]_vars

Adjacent(a, b) ==
    LET dx == Abs(XOf(a), XOf(b))
        dy == Abs(YOf(a), YOf(b))
    IN  IF config.neighbors = Cardinal
        THEN dx + dy = 1
        ELSE (IF dx >= dy THEN dx ELSE dy) = 1

\* C2: the search never wraps around a grid edge: every Visited cell other
\* than the goal has its parent on a grid-adjacent cell (|dx|+|dy| = 1 under
\* Cardinal, max(|dx|,|dy|) = 1 under CardinalAndDiagonal).
C2_ParentAdjacent ==
    \A id \in Ids : (IsVisited(id) /\ id # Goal) => Adjacent(id, CellOf(id).parent)

\* a complete column of Obstacle cells strictly between the columns of a and b
ColumnWall(a, b) ==
    \E x \in 0..(Width - 1) :
        /\ \A y \in 0..(Height - 1) : CellOf(y * Width + x).tag = "Obstacle"
        /\ (XOf(a) < x /\ x < XOf(b)) \/ (XOf(b) < x /\ x < XOf(a))

\* a complete row of Obstacle cells strictly between the rows of a and b
RowWall(a, b) ==
    \E y \in 0..(Height - 1) :
        /\ \A x \in 0..(Width - 1) : CellOf(y * Width + x).tag = "Obstacle"
        /\ (YOf(a) < y /\ y < YOf(b)) \/ (YOf(b) < y /\ y < YOf(a))

Separated == ColumnWall(Start, Goal) \/ RowWall(Start, Goal)

\* C3: when a complete wall of Obstacle cells separates start and goal, the
\* start cell is never marked Visited, path() is absent, and the stepping
\* ends with the frontier empty.
C3_WallNoPath ==
    Separated =>
        /\ ~IsVisited(Start)
        /\ path(astar) = None
        /\ FirstAbsent => frontier = <<>>

\* C4: on an obstacle-free grid at least one of the first width*height + 1
\* step() calls returns absent.
C4_AbsentWithinCells ==
    calls = Width * Height + 1 => prev_step < calls

\* C9: a cell that is Obstacle is still Obstacle after every step() call.
C9_ObstaclesKept ==
    [][\A i \in DOMAIN world.cells :
          world.cells[i].tag = "Obstacle" => world'.cells[i].tag = "Obstacle"]_vars

\* the coordinates the enumerator emitted for the cell step() expanded last
Emitted ==
    IF current = None THEN <<>>
    ELSE NeighborItems(iter_neighbor_ids(world, current[1], config.neighbors)[1])

\* C10: every coordinate the neighbor enumerator emits for a cell is in
\* bounds: 0 <= nx <= width-1 and 0 <= ny <= height-1.
C10_EmittedInBounds ==
    \A i \in DOMAIN Emitted :
        /\ 0 <= Emitted[i][1] /\ Emitted[i][1] <= Width - 1
        /\ 0 <= Emitted[i][2] /\ Emitted[i][2] <= Height - 1

\* C5: on every grid and for every valid config, repeated step() calls
\* eventually return absent; no call panics on the way, since a panic ends
\* the calls.
C5_StepsEndAbsent == <>Absent

\* a search on a grid with an obstacle has made four steps and then ended
C5_Witness ==
    /\ FirstAbsent
    /\ prev_step >= 4
    /\ \E id \in Ids : CellOf(id).tag = "Obstacle"

\* the config of tests::test_simple_pathing
TestConfig ==
    /\ config.goal = id_at(world, 0, 0)
    /\ config.start = id_at(world, 3, 0)
    /\ config.neighbors = Cardinal
    /\ config.heuristic = Some(Euclidean)

\* C6: on the grid and the config of the test, when step() returns absent
\* the start cell is Visited (path() is present), the parent chain has (0,0)
\* at one end and (3,0) at the other and holds neither (1,0) nor (1,1).
C6_TestPath ==
    (TestConfig /\ FirstAbsent) =>
        /\ path(astar) # None
        /\ LET p == path(astar)[1]
           IN  /\ p[1] = id_at(world, 3, 0)[1]
               /\ p[Len(p)] = id_at(world, 0, 0)[1]
               /\ \A i \in DOMAIN p :
                     p[i] # id_at(world, 1, 0)[1] /\ p[i] # id_at(world, 1, 1)[1]

\* the search of the test has ended, its path going around the obstacles
C6_Witness ==
    /\ TestConfig
    /\ FirstAbsent
    /\ path(astar) # None
    /\ Len(path(astar)[1]) = 8

CorridorConfig ==
    /\ Width = 1 \/ Height = 1
    /\ config.neighbors = Cardinal
    /\ config.heuristic = Some(Manhattan)

\* C7: in an obstacle-free corridor with Cardinal connectivity and the
\* Manhattan heuristic, when the search ends the number of parent links
\* walked from start to goal is the Manhattan distance of start and goal.
C7_CorridorPathLength ==
    (CorridorConfig /\ FirstAbsent) =>
        /\ path(astar) # None
        /\ LET p == path(astar)[1]
           IN  /\ p[Len(p)] = Goal
               /\ Len(p) - 1 = Abs(XOf(Start), XOf(Goal)) + Abs(YOf(Start), YOf(Goal))

\* a search in a column of cells has ended four cells away from the goal
C7_Witness ==
    /\ CorridorConfig
    /\ Width = 1
    /\ FirstAbsent
    /\ Abs(YOf(Start), YOf(Goal)) = 4
    /\ path(astar) # None

\* C8: if start == goal the first step() call returns absent and the
\* frontier is still empty afterwards: no neighbor of the goal is relaxed.
C8_StartIsGoal ==
    (Start = Goal /\ calls = 1) =>
        /\ ret = None
        /\ frontier = <<>>
        /\ \A id \in Ids : id # Goal => ~IsVisited(id)

\* the first step() call was made with start == goal next to an Open cell
C8_Witness ==
    /\ Start = Goal
    /\ calls = 1
    /\ \E id \in Ids : id # Goal /\ CellOf(id).tag = "Open"

\* the last call of NeighborIter::next returned None: the iteration has ended
IterEnded == call # None /\ call.fn = "next" /\ call.out = None

\* the direction of an emitted item, from its offset to the iterator's cell
DirOf(item) ==
    LET dx == item[1] - iter.x
        dy == item[2] - iter.y
    IN  CASE dx = 1 /\ dy = 0 -> "E"
          [] dx = 1 /\ dy = 1 -> "SE"
          [] dx = 0 /\ dy = 1 -> "S"
          [] dx = -1 /\ dy = 1 -> "SW"
          [] dx = -1 /\ dy = 0 -> "W"
          [] dx = -1 /\ dy = -1 -> "NW"
          [] dx = 0 /\ dy = -1 -> "N"
          [] dx = 1 /\ dy = -1 -> "NE"
          [] OTHER -> "none"

\* the directions of the items drawn so far
Dirs == [i \in DOMAIN items |-> DirOf(items[i])]

InteriorSeq ==
    IF iter.strat = Cardinal THEN <<"E", "S", "W", "N">>
    ELSE <<"E", "SE", "S", "SW", "W", "NW", "N", "NE">>

RECURSIVE IsSubseq(_, _)
\* s is t with some members removed
IsSubseq(s, t) ==
    IF s = <<>> THEN TRUE
    ELSE IF t = <<>> THEN FALSE
    ELSE IF Head(s) = Head(t) THEN IsSubseq(Tail(s), Tail(t))
    ELSE IsSubseq(s, Tail(t))

InteriorCell ==
    /\ 0 < iter.x /\ iter.x < Width - 1
    /\ 0 < iter.y /\ iter.y < Height - 1

\* C11: for an interior cell the enumerator yields exactly E, S, W, N
\* (Cardinal) or E, SE, S, SW, W, NW, N, NE (CardinalAndDiagonal), in that
\* order, then ends; for a boundary cell it yields that sequence with some
\* members removed, the others in the same relative order.
C11_EnumerationOrder ==
    /\ IsSubseq(Dirs, InteriorSeq)
    /\ IterEnded => (InteriorCell => Dirs = InteriorSeq)

\* the enumeration of an interior cell under CardinalAndDiagonal has ended
C11_Witness ==
    /\ IterEnded
    /\ InteriorCell
    /\ iter.strat = CardinalAndDiagonal
    /\ Len(items) = 8

\* [SE], [SW], [NE]: the diagonal members, emitted under CardinalAndDiagonal only
Diag(d) == IF iter.strat = CardinalAndDiagonal THEN <<d>> ELSE <<>>

\* C12: the enumerator never subtracts 1 from a zero coordinate: at x == 0
\* (y > 0) it yields E,[SE],S,N,[NE], at y == 0 (x > 0) E,[SE],S,[SW],W, and
\* at (0,0) E,[SE],S.
C12_NoUnderflow ==
    /\ \A i \in DOMAIN items : items[i][1] >= 0 /\ items[i][2] >= 0
    /\ \A i \in DOMAIN Dirs :
          /\ Dirs[i] \in {"SW", "W", "NW"} => iter.x > 0
          /\ Dirs[i] \in {"NW", "N", "NE"} => iter.y > 0
    /\ IterEnded =>
          /\ (iter.x = 0 /\ iter.y > 0) =>
                Dirs = <<"E">> \o Diag("SE") \o <<"S", "N">> \o Diag("NE")
          /\ (iter.y = 0 /\ iter.x > 0) =>
                Dirs = <<"E">> \o Diag("SE") \o <<"S">> \o Diag("SW") \o <<"W">>
          /\ (iter.x = 0 /\ iter.y = 0) =>
                Dirs = <<"E">> \o Diag("SE") \o <<"S">>

\* the enumeration of a cell of the west edge, south of the corner, has ended
\* under CardinalAndDiagonal
C12_Witness ==
    /\ IterEnded
    /\ iter.x = 0
    /\ iter.y > 0
    /\ iter.strat = CardinalAndDiagonal
    /\ Len(items) = 5

\* the last call was of id_at, or of coords_for
CalledIdAt == call # None /\ call.fn = "id_at"
CalledCoordsFor == call # None /\ call.fn = "coords_for"

\* C13: id_at(x,y) returns absent whenever x >= width or y >= height, and
\* coords_for(id) returns absent whenever id >= width*height.
C13_OutOfRangeAbsent ==
    /\ (CalledIdAt /\ (call.x >= Width \/ call.y >= Height)) => call.out = None
    /\ (CalledCoordsFor /\ call.id >= Width * Height) => call.out = None

\* C14: for every (x,y) with x < width and y < height, id_at(x,y) is
\* y*width + x and coords_for of it is (x,y); for every id < width*height,
\* id_at of coords_for(id) is id.
C14_ConversionBijection ==
    /\ (CalledIdAt /\ call.x < Width /\ call.y < Height) =>
          /\ call.out = Some(call.y * Width + call.x)
          /\ coords_for(world, call.out[1]) = Some(<<call.x, call.y>>)
    /\ (CalledCoordsFor /\ call.id < Width * Height) =>
          /\ call.out # None
          /\ call.out[1][1] < Width /\ call.out[1][2] < Height
          /\ id_at(world, call.out[1][1], call.out[1][2]) = Some(call.id)

\* id_at was called for the last cell of a grid with several rows and columns
\* that is not square
C14_Witness ==
    /\ CalledIdAt
    /\ Width # Height
    /\ call.x = Width - 1 /\ call.x > 0
    /\ call.y = Height - 1 /\ call.y > 0

\* from_cfg was called
CalledFromCfg == call # None /\ call.fn = "from_cfg"

\* an Id of a config is unset, or set and not below width*height
Unset(id) == id = None
OutOfRange(id) == id # None /\ id[1] >= Width * Height

\* C15: from_cfg returns an error exactly when valid_for fails, and valid_for
\* fails exactly when goal is unset, goal >= width*height, start is unset or
\* start >= width*height, the goal being checked before the start; otherwise
\* both succeed, whatever the start and goal cells hold.
C15_ConstructionGated ==
    CalledFromCfg =>
        LET goal == call.cfg.goal
            start == call.cfg.start
            goal_bad == Unset(goal) \/ OutOfRange(goal)
        IN  /\ call.out.ok <=> call.valid.ok
            /\ ~call.out.ok => call.out.err = call.valid.err
            /\ ~call.valid.ok <=>
                  (goal_bad \/ Unset(start) \/ OutOfRange(start))
            /\ Unset(goal) => call.valid = Err("Must specify goal point")
            /\ OutOfRange(goal) => call.valid = Err("Invalid goal")
            /\ (~goal_bad /\ Unset(start)) => call.valid = Err("Must specify start point")
            /\ (~goal_bad /\ OutOfRange(start)) => call.valid = Err("Invalid start")

\* from_cfg succeeded with the goal on an Obstacle cell
C15_Witness ==
    /\ CalledFromCfg
    /\ call.out.ok
    /\ Goal # Start
    /\ CellOf(Goal).tag = "Obstacle"

\* C20: right after from_cfg succeeds and before any step() call, the goal
\* cell of the search's grid is Visited{g:0, h:0, k:0, parent: goal}, every
\* other cell is as in the given grid, the frontier is empty, current is
\* absent and the step count is 0.
C20_GoalMarkedAtConstruction ==
    (CalledFromCfg /\ call.out.ok /\ calls = 0) =>
        /\ CellOf(Goal) = Visited(0, 0, 0, Goal)
        /\ \A id \in Ids : id # Goal => CellOf(id) = call.world.cells[id + 1]
        /\ frontier = <<>>
        /\ current = None
        /\ prev_step = 0

\* the Ids of the Obstacle cells of a world
ObstaclesOf(w) == {i \in DOMAIN w.cells : w.cells[i].tag = "Obstacle"}

\* this step is the transition Configuring -> Active, or Active -> Configuring
Activates == app.state = "Config" /\ app'.state = "Active"
Deactivates == app.state = "Active" /\ app'.state = "Config"

\* C16: the session leaves Configuring only for Active and only when
\* config.valid_for(world) succeeds; a request with an invalid config changes
\* nothing, and the unwrap() of from_cfg never fails.
C16_ActivationGated ==
    [][/\ app'.state # Panic
       /\ (app.state = "Config" /\ app'.state # "Config") =>
              (Activates /\ valid_for(config, world).ok)
       /\ (app.state = "Config" /\ ~valid_for(config, world).ok
              /\ left_click_at(CtlSide + 1, 2)) => UNCHANGED vars]_vars

\* the session has just become Active
C16_Witness ==
    /\ app.state = "Active"
    /\ call # None /\ call.out.ok
    /\ calls = 0

\* C17: Configuring -> Active, any number of step() calls, then Active ->
\* Configuring gives a grid with no Visited cell whose Obstacle cells are
\* those of the grid before activation.
C17_RoundTripKeepsGrid ==
    [][Deactivates =>
          /\ \A i \in DOMAIN world'.cells : world'.cells[i].tag # "Visited"
          /\ ObstaclesOf(world') = ObstaclesOf(call.world)]_vars

\* C18: after Active -> Configuring the new config's start and goal are both
\* set and are the start and goal the search was created with.
C18_SelectionCarried ==
    [][Deactivates =>
          /\ config'.goal # None /\ config'.goal = call.cfg.goal
          /\ config'.start # None /\ config'.start = call.cfg.start]_vars

\* the session is back in Configuring after a search that made steps, with
\* a start and a different goal selected
C18_Witness ==
    /\ app.state = "Config"
    /\ app.step > 0
    /\ config.goal # None /\ config.start # None
    /\ config.goal # config.start

\* the search of an Active session
search == <<config, current, frontier, world, prev_step>>

\* C19: while Active, a right click and a left click on a cell leave the
\* search's grid, frontier, current, config and step count unchanged, and only
\* the controls "step" and "back to Configuring" change the search; while
\* Configuring no event advances a search.
C19_EditingConfigOnly ==
    [][/\ app.state = "Active" =>
            /\ (\E x, y \in 0..CtlSide : right_click_at(x, y)) =>
                   UNCHANGED <<search, app.state>>
            /\ (\E x \in 0..(CtlSide - 1), y \in 0..CtlSide : left_click_at(x, y)) =>
                   UNCHANGED <<search, app.state>>
            /\ ~UNCHANGED <<search, app.state>> =>
                   \E x \in CtlSide..(CtlSide + 1), k \in {0, 1} : left_click_at(x, k)
       /\ app.state = "Config" =>
            /\ prev_step' = 0 /\ current' = None /\ frontier' = <<>> /\ calls' = 0
            /\ app'.step = app.step]_vars

\* an Active session whose search has made steps, after a click on a cell
C19_Witness ==
    /\ app.state = "Active"
    /\ prev_step > 1
    /\ app.step = prev_step
    /\ app.selected_cell # None


----------------------------------------------------------------------------
(* The relaxation of step(): astar.rs 156-222 *)

\* the Ids in the frontier
FrontierIds == {frontier[i][1] : i \in DOMAIN frontier}

\* the Ids of the cells that the coordinates emitted for the cell expanded
\* last stand for in cell_at_mut
EmittedIds ==
    {id_at(world, Emitted[i][1], Emitted[i][2])[1] :
        i \in {j \in DOMAIN Emitted : id_at(world, Emitted[j][1], Emitted[j][2]) # None}}

\* the Visited cells that the expansion made last compared and left as they
\* were: neighbors of `current` whose parent is another cell (an update by
\* that expansion would have made `current` the parent)
KeptByExpansion ==
    IF current = None THEN {}
    ELSE {id \in EmittedIds : IsVisited(id) /\ CellOf(id).parent # current[1]}

\* C21: once a relaxation comparison has left a Visited cell unchanged, no
\* later step() changes its g, h or parent or puts it back into the frontier;
\* stated for the step() call that follows the comparison, the first of the
\* later calls.
C21_KeptNeverReopened ==
    [][\A id \in KeptByExpansion :
          /\ CellOf(id)' = CellOf(id)
          /\ id \in FrontierIds' => id \in FrontierIds]_vars

\* the coordinates of the cell id, as coords_for gives them
CoordOf(id) == coords_for(world, id)[1]

\* C22: every Visited cell other than the goal stores as h the configured
\* heuristic distance between its own coordinates and the coordinates of the
\* start (0 without a heuristic), and the goal stores h = 0.
C22_HeuristicRelativeToStart ==
    \A id \in Ids :
        IsVisited(id) =>
            CellOf(id).h = IF id = Goal THEN 0
                           ELSE heuristic_for(config.heuristic, CoordOf(id), CoordOf(Start))

\* the cells next to id on the grid: the cells at the emitted coordinates
\* for id that lie on the grid
GridNeighbors(id) ==
    LET em == NeighborItems(iter_neighbor_ids(world, id, config.neighbors)[1])
    IN  {em[i][2] * Width + em[i][1] :
            i \in {j \in DOMAIN em : /\ 0 <= em[j][1] /\ em[j][1] < Width
                                     /\ 0 <= em[j][2] /\ em[j][2] < Height}}

\* the stored cost of id as step() reads it ("get cost to reach current cell")
StoredCost(id) == IF IsVisited(id) THEN CellOf(id).g ELSE 0

\* g_current + edge_cost for the neighbor id of next
Tentative(next, id) ==
    F32Add(edge_cost(config.neighbors, CoordOf(id), CoordOf(next)), StoredCost(next))

\* C23: a successful step() that expands `next` with stored cost g_current
\* makes every Open neighbor, and every Visited neighbor with a stored g above
\* g_current + edge_cost, Visited with that g and parent = next and with a
\* frontier entry of priority g + h; it leaves every other neighbor and every
\* cell that is not a neighbor of `next` unchanged (the goal cell that the
\* first call marks is left out of this).
C23_RelaxationRule ==
    [][prev_step' = prev_step + 1 =>
         \E next \in {current'[1]} :
           \A id \in Ids :
              IF /\ id \in GridNeighbors(next)
                 /\ \/ CellOf(id).tag = "Open"
                    \/ IsVisited(id) /\ CellOf(id).g > Tentative(next, id)
              THEN /\ CellOf(id)'.tag = "Visited"
                   /\ CellOf(id)'.g = Tentative(next, id)
                   /\ CellOf(id)'.parent = next
                   /\ \E i \in DOMAIN frontier' :
                          frontier'[i] = <<id, F32Add(CellOf(id)'.h, CellOf(id)'.g)>>
              ELSE \/ CellOf(id)' = CellOf(id)
                   \/ current = None /\ id = Goal]_vars

\* C24: each Id appears at most once in the frontier: relaxing a cell that
\* has a frontier entry replaces the entry in place.
C24_FrontierIdsUnique ==
    \A i, j \in DOMAIN frontier : frontier[i][1] = frontier[j][1] => i = j

\* the fourth step() on the open 4x2 grid with goal 3 and start 4 has relaxed
\* cell 1 from the cell 2 while cell 1 was in the frontier with the priority
\* 2.828 + 2 (put there by the expansion of 6): its one entry now holds 2 + 2
C24_Witness ==
    /\ Width = 4 /\ Height = 2 /\ Goal = 3 /\ Start = 4
    /\ config.neighbors = CardinalAndDiagonal /\ config.heuristic = Some(Manhattan)
    /\ prev_step = 4 /\ calls = 4 /\ current = Some(2)
    /\ CellOf(1) = Visited(F32(2), F32(2), 0, 2)
    /\ \E i \in DOMAIN frontier : frontier[i] = <<1, F32(4)>>

\* the frontier is in the order of non-increasing priority
FrontierSorted ==
    \A i, j \in DOMAIN frontier : i < j => frontier[i][2] >= frontier[j][2]

\* the priority of e is minimal in the frontier
MinimalInFrontier(e) == \A i \in DOMAIN frontier : frontier[i][2] >= e[2]

\* C25: after every step() the frontier is sorted by non-increasing
\* priority, and every step() after the first that finds an entry takes the
\* last one, whose priority is minimal in the frontier the call began with:
\* a successful call expands its Id, an absent call has found the start in it.
C25_SortedPopsMinimum ==
    /\ []FrontierSorted
    /\ [][current # None /\ frontier # <<>> =>
            \E e \in {frontier[Len(frontier)]} :
               /\ MinimalInFrontier(e)
               /\ IF prev_step' = prev_step + 1
                  THEN current' = Some(e[1])
                  ELSE /\ e[1] = Start
                       /\ frontier' = SubSeq(frontier, 1, Len(frontier) - 1)]_vars

\* a second or later step() was successful and has left a frontier whose
\* entries differ in priority, sorted after entries were added
C25_Witness ==
    /\ prev_step >= 2
    /\ ret = Some(prev_step)
    /\ Len(frontier) >= 3
    /\ frontier[1][2] > frontier[Len(frontier)][2]
    /\ \E i \in DOMAIN frontier :
           /\ CellOf(frontier[i][1]).parent = current[1]
           /\ i < Len(frontier)

RECURSIVE HopsToGoal(_, _)
\* the number of parent links from the Visited cell id to the goal, or -1
\* if `hops` links do not lead there
HopsToGoal(id, hops) ==
    IF id = Goal THEN 0
    ELSE IF hops = 0 \/ ~IsVisited(id) THEN -1
    ELSE LET n == HopsToGoal(CellOf(id).parent, hops - 1)
         IN  IF n < 0 THEN -1 ELSE n + 1

\* C26: the parent graph is never malformed: the goal is the only cell that
\* is its own parent, every other Visited cell has a stored g above its
\* parent's stored g, and the parent links of every Visited cell reach the
\* goal in fewer than width*height hops.
C26_ParentGraphWellFormed ==
    \A id \in Ids :
        IsVisited(id) =>
            /\ CellOf(id).parent = id <=> id = Goal
            /\ id # Goal =>
                   /\ IsVisited(CellOf(id).parent)
                   /\ CellOf(id).g > CellOf(CellOf(id).parent).g
            /\ HopsToGoal(id, Width * Height - 1) >= 0

\* a Visited cell lies three parent links from the goal, and a cell that has
\* a child has the cell expanded last as its parent: a cell was relaxed
\* again after its expansion, or was expanded twice
C26_Witness ==
    /\ \E id \in Ids : IsVisited(id) /\ HopsToGoal(id, Width * Height - 1) >= 3
    /\ ret = Some(prev_step)
    /\ \E id, child \in Ids :
           /\ IsVisited(id) /\ CellOf(id).parent = current[1]
           /\ IsVisited(child) /\ CellOf(child).parent = id

\* C27: every Id held by the search is in range: the Ids in the frontier,
\* the value of current and the parent of every Visited cell are below
\* width*height, and no unwrap() inside step() fails (no call panics).
C27_IdsInRange ==
    /\ \A i \in DOMAIN frontier : frontier[i][1] \in Ids
    /\ current # None => current[1] \in Ids
    /\ \A id \in Ids : IsVisited(id) => CellOf(id).parent \in Ids
    /\ ret # Panic

\* step() calls were made, the frontier holds Ids, and a cell on the east
\* edge, whose East and South-East coordinates lie off the grid, was expanded
C27_Witness ==
    /\ prev_step >= 2
    /\ frontier # <<>>
    /\ current # None
    /\ XOf(current[1]) = Width - 1
    /\ \E id \in Ids : IsVisited(id) /\ CellOf(id).parent = current[1]

\* the step() call that is made next selects the start: the first call with
\* start = goal, or a later call with the start in the last frontier entry
SelectsStart ==
    \/ current = None /\ Goal = Start
    \/ current # None /\ frontier # <<>> /\ frontier[Len(frontier)][1] = Start

\* C28: the step() call that selects the start returns absent without
\* expanding it: it changes no grid cell, adds nothing to the frontier and
\* changes neither current nor the step count.
C28_StartNotExpanded ==
    [][SelectsStart =>
          /\ ret' = None
          /\ world' = world
          /\ FrontierIds' \subseteq FrontierIds
          /\ current' = current
          /\ prev_step' = prev_step]_vars

\* C29: current() is absent until the first successful step(); the first
\* successful step() expands the goal and every later one the Id of the last
\* frontier entry, and current() is that Id afterwards: every cell the call
\* changed has it as parent; a step() that returns absent leaves current().
C29_CurrentIsExpanded ==
    /\ [](prev_step = 0 => AStar_current(astar) = None)
    /\ [][IF prev_step' = prev_step + 1
          THEN /\ AStar_current(astar)' =
                      IF prev_step = 0 THEN Some(Goal)
                      ELSE Some(frontier[Len(frontier)][1])
               /\ \A id \in Ids : CellOf(id)' # CellOf(id) =>
                      CellOf(id)'.parent = AStar_current(astar)'[1]
          ELSE AStar_current(astar)' = AStar_current(astar)]_vars

\* after successful steps that popped frontier entries, a step() has
\* returned absent and current() is still present
C29_Witness ==
    /\ prev_step >= 2
    /\ calls > prev_step
    /\ ret = None
    /\ AStar_current(astar) # None
    /\ AStar_current(astar) # Some(Goal)

\* C30: the step counter counts the successful steps: it is 0 before the
\* first call, a step() call that returns a value returns the counter plus
\* one and leaves that in the counter (so the n-th such call returns n), and
\* a call that returns absent leaves the counter unchanged.
C30_StepCounter ==
    /\ [](calls = 0 => prev_step = 0)
    /\ [][calls' = calls + 1 =>
            IF ret' = None
            THEN prev_step' = prev_step
            ELSE ret' = Some(prev_step + 1) /\ prev_step' = prev_step + 1]_vars

\* a step() call has returned a value after an earlier call had returned
\* absent: it returned the number of the successful calls, not of the calls
C30_Witness ==
    /\ prev_step >= 2
    /\ ret = Some(prev_step)
    /\ calls > prev_step

----------------------------------------------------------------------------
(* The frontier and the grid: astar.rs 192-228 *)

\* C31: every frontier entry (id, p) refers to a Visited cell that is not
\* the goal, and p is the g + h stored in that cell now.
C31_FrontierAgreesWithGrid ==
    \A i \in DOMAIN frontier :
        \E id \in {frontier[i][1]} :
            /\ id \in Ids
            /\ IsVisited(id)
            /\ id # Goal
            /\ frontier[i][2] = F32Add(CellOf(id).h, CellOf(id).g)

\* steps were made with a heuristic, and the frontier holds an entry of a
\* cell that stores h > 0 and g > 1 and one of a cell the last step relaxed
C31_Witness ==
    /\ prev_step >= 2
    /\ config.heuristic # None
    /\ \E i, j \in DOMAIN frontier :
           /\ i # j
           /\ CellOf(frontier[i][1]).h > 0
           /\ CellOf(frontier[i][1]).g > F32(1)
           /\ CellOf(frontier[j][1]).parent = current[1]

\* C32: during a search a Visited cell stays Visited and its stored g never
\* increases: a step() that changes the cell lowers its g.
C32_CellStateMonotone ==
    [][\A id \in Ids :
          IsVisited(id) =>
              /\ CellOf(id)'.tag = "Visited"
              /\ CellOf(id)'.g <= CellOf(id).g
              /\ CellOf(id)' # CellOf(id) => CellOf(id)'.g < CellOf(id).g]_vars

\* a Visited cell was overwritten with a lower g after its expansion: the g
\* of a child of it exceeds its g by more than the cost of any move
C32_Witness ==
    \E id, child \in Ids :
        /\ id # child
        /\ IsVisited(id)
        /\ IsVisited(child) /\ CellOf(child).parent = id
        /\ CellOf(child).g > F32Add(CellOf(id).g, F32(2))

\* the frontier a step() call relaxes into: the frontier without the entry
\* the call pops
FrontierAfterPop ==
    IF current # None /\ frontier # <<>>
    THEN SubSeq(frontier, 1, Len(frontier) - 1)
    ELSE frontier

\* the coordinates the enumerator emits for the cell id
EmittedFor(id) == NeighborItems(iter_neighbor_ids(world, id, config.neighbors)[1])

\* the place of the first of the coordinates em that stands for the cell id
\* of the world w (0: none)
FirstEmitted(w, em, id) ==
    IF \E i \in DOMAIN em : id_at(w, em[i][1], em[i][2]) = Some(id)
    THEN CHOOSE i \in DOMAIN em :
             /\ id_at(w, em[i][1], em[i][2]) = Some(id)
             /\ \A j \in 1..(i - 1) : id_at(w, em[j][1], em[j][2]) # Some(id)
    ELSE 0

----------------------------------------------------------------------------
(* Active -> Configuring: world_controller.rs 176-185 *)

\* C34: Active -> Configuring does not carry the neighbors and the heuristic
\* of the search forward: the config after the transition has neighbors =
\* Cardinal and no heuristic, whatever the search ran with, and the start and
\* the goal of the search.
C34_StrategyNotCarried ==
    [][Deactivates =>
          /\ config'.neighbors = Cardinal
          /\ config'.heuristic = None
          /\ config'.goal = config.goal
          /\ config'.start = config.start]_vars

\* the session is back in Configuring with the default neighbors and no
\* heuristic after a search that made steps; its goal and start are set,
\* which the controls of Configuring cannot undo
C34_Witness ==
    /\ app.state = "Config"
    /\ app.step > 1
    /\ config.neighbors = Cardinal /\ config.heuristic = None
    /\ config.goal # None /\ config.start # None
    /\ call = None

====
